---- MODULE Spec2Model ----
(***************************************************************************)
(* Model of todotxt-tui: the windowed list navigator (WidgetList) and the  *)
(* task store (ToDo) with its per-dimension filter sets.                   *)
(***************************************************************************)
EXTENDS Integers, Sequences, FiniteSets, TLC

(***************************************************************************)
(* Bounds of the model.                                                    *)
(***************************************************************************)
\* largest list length fed to the navigator
MaxLen == 6
\* largest viewport capacity
MaxSize == 4
\* largest list_shift tried when the configuration is not restricted
MaxShift == 4
\* width, in bits, at which usize arithmetic is modelled
UsizeBits == 8
\* largest number of tasks held by the store
MaxTasks == 3
\* longest status-line template, in characters
MaxTemplate == 4

\* the scenario of tests::movement_full_list: testing_widget(50), set_size(10)
ScenarioLen == 50
ScenarioSize == 10

VARIABLES
    len,              \* WidgetList.len
    first,            \* WidgetList.first
    size,             \* WidgetList.size
    list_shift,       \* WidgetList.list_shift
    selected,         \* WidgetList.state.selected()
    overflow_checks,  \* the build panics on integer overflow (debug) or wraps (release)
    panicked,         \* the thread has panicked
    op,               \* name of the last operation that ran
    ret,              \* what the last next()/prev() returned
    downs,            \* down() calls since construction or first(), -1 when untracked
    pending,          \* ToDo.pending
    done,             \* ToDo.done
    use_done,         \* ToDo.use_done
    project_filters,  \* ToDo.project_filters
    context_filters,  \* ToDo.context_filters
    hashtag_filters,  \* ToDo.hashtag_filters
    arg,              \* index argument of the last store operation, 0 when it takes none
    data_type,        \* StateList.data_type
    fn_data,          \* StateList.fn_data
    category,         \* StateCategories.category
    call,             \* the ToDo method the last key handler called, with its indices
    template,         \* the status-line template handed to Parser::from_str
    parse_ret         \* what Parser::parse returned for it

navVars == <<len, first, size, list_shift, selected, overflow_checks, downs>>
todoVars == <<pending, done, use_done, project_filters, context_filters,
              hashtag_filters, arg>>
parserVars == <<template, parse_ret>>
viewVars == <<data_type, fn_data, category, call, parserVars>>
vars == <<len, first, size, list_shift, selected, overflow_checks, panicked,
          op, ret, downs, pending, done, use_done, project_filters,
          context_filters, hashtag_filters, arg, data_type, fn_data, category,
          call, template, parse_ret>>

(***************************************************************************)
(* usize arithmetic                                                        *)
(***************************************************************************)
UsizeMod == 2 ^ UsizeBits

\* the value a wrapping usize operation leaves
Wrap(x) == x % UsizeMod

\* Option<(usize, usize)>
None == [some |-> FALSE, old |-> 0, new |-> 0]
Some(o, n) == [some |-> TRUE, old |-> o, new |-> n]

(***************************************************************************)
(* WidgetList                                                              *)
(***************************************************************************)
act == selected

IndexOf(a, f) == Wrap(a + f)

index == IndexOf(act, first)

range == <<first, Wrap(first + size)>>

\* down() that never leaves the parking row once the window is at the tail
DownFromNoTail(a, f) ==
    IF len <= size
    THEN IF len > Wrap(a + 1)
         THEN [act |-> Wrap(a + 1), first |-> f]
         ELSE [act |-> a, first |-> f]
    ELSE IF size <= Wrap(Wrap(a + 1) + list_shift)
         THEN IF Wrap(f + size) < len
              THEN [act |-> a, first |-> Wrap(f + 1)]
              ELSE [act |-> a, first |-> f]
         ELSE [act |-> Wrap(a + 1), first |-> f]

\* down() that starts scrolling one row late: size < act + 1 + shift
DownFromLateScroll(a, f) ==
    IF len <= size
    THEN IF len > Wrap(a + 1)
         THEN [act |-> Wrap(a + 1), first |-> f]
         ELSE [act |-> a, first |-> f]
    ELSE IF size < Wrap(Wrap(a + 1) + list_shift)
         THEN IF Wrap(f + size) < len
              THEN [act |-> a, first |-> Wrap(f + 1)]
              ELSE IF size > Wrap(a + 1)
                   THEN [act |-> Wrap(a + 1), first |-> f]
                   ELSE [act |-> a, first |-> f]
         ELSE [act |-> Wrap(a + 1), first |-> f]

\* down() that, near the bottom row, moves the cursor while a row is left and
\* scrolls only afterwards: the two inner tests in the other order
DownFromCursorFirst(a, f) ==
    IF len <= size
    THEN IF len > Wrap(a + 1)
         THEN [act |-> Wrap(a + 1), first |-> f]
         ELSE [act |-> a, first |-> f]
    ELSE IF size <= Wrap(Wrap(a + 1) + list_shift)
         THEN IF size > Wrap(a + 1)
              THEN [act |-> Wrap(a + 1), first |-> f]
              ELSE IF Wrap(f + size) < len
                   THEN [act |-> a, first |-> Wrap(f + 1)]
                   ELSE [act |-> a, first |-> f]
         ELSE [act |-> Wrap(a + 1), first |-> f]

\* the (act, first) that down() leaves when called at (a, f)
DownFrom(a, f) ==
    IF len <= size
    THEN IF len > Wrap(a + 1)
         THEN [act |-> Wrap(a + 1), first |-> f]
         ELSE [act |-> a, first |-> f]
    ELSE IF size <= Wrap(Wrap(a + 1) + list_shift)
         THEN IF Wrap(f + size) < len
              THEN [act |-> a, first |-> Wrap(f + 1)]
              ELSE IF size > Wrap(a + 1)
                   THEN [act |-> Wrap(a + 1), first |-> f]
                   ELSE [act |-> a, first |-> f]
         ELSE [act |-> Wrap(a + 1), first |-> f]

\* up() that never scrolls: near the top row it only moves the cursor
UpFromNoScroll(a, f) ==
    IF a > 0
    THEN [act |-> a - 1, first |-> f]
    ELSE [act |-> a, first |-> f]

\* up() that never leaves the parking row once the window is at the top
UpFromNoHead(a, f) ==
    IF a <= list_shift
    THEN IF f > 0
         THEN [act |-> a, first |-> f - 1]
         ELSE [act |-> a, first |-> f]
    ELSE [act |-> a - 1, first |-> f]

\* the (act, first) that up() leaves when called at (a, f)
UpFrom(a, f) ==
    IF a <= list_shift
    THEN IF f > 0
         THEN [act |-> a, first |-> f - 1]
         ELSE IF a > 0
              THEN [act |-> a - 1, first |-> f]
              ELSE [act |-> a, first |-> f]
    ELSE [act |-> a - 1, first |-> f]

\* last() that selects row `size`, one past the viewport, on a long list
LastResultPastWindow(checked) ==
    LET shown_items == Wrap(len - 1)
    IN IF len < 1 /\ checked
       THEN [act |-> act, first |-> first, panic |-> TRUE]
       ELSE IF size > shown_items
            THEN [act |-> shown_items, first |-> 0, panic |-> FALSE]
            ELSE [act |-> size, first |-> Wrap(len - size), panic |-> FALSE]

\* last(): the subtractions of lines 163, 168 and 169 in order; `panic` tells
\* whether one of them underflows, and (act, first) is what has been stored
\* when the first underflow is met (checked build) or at the end (wrapping).
LastResult(checked) ==
    LET shown_items == Wrap(len - 1)
    IN IF len < 1 /\ checked
       THEN [act |-> act, first |-> first, panic |-> TRUE]
       ELSE IF size > shown_items
            THEN [act |-> shown_items, first |-> 0, panic |-> FALSE]
            ELSE IF len < size /\ checked
                 THEN [act |-> act, first |-> first, panic |-> TRUE]
                 ELSE IF size < 1 /\ checked
                      THEN [act |-> act, first |-> Wrap(len - size), panic |-> TRUE]
                      ELSE [act |-> Wrap(size - 1), first |-> Wrap(len - size),
                            panic |-> FALSE]

\* downs after one more down()
CountDown == IF downs >= 0 /\ downs < len THEN downs + 1 ELSE -1

WidgetList_down ==
    /\ ~panicked
    /\ LET r == DownFrom(act, first)
       IN /\ selected' = r.act
          /\ first' = r.first
    /\ op' = "down"
    /\ ret' = None
    /\ downs' = CountDown
    /\ UNCHANGED <<len, size, list_shift, overflow_checks, panicked>>
    /\ UNCHANGED <<todoVars, viewVars>>

WidgetList_up ==
    /\ ~panicked
    /\ LET r == UpFrom(act, first)
       IN /\ selected' = r.act
          /\ first' = r.first
    /\ op' = "up"
    /\ ret' = None
    /\ downs' = -1
    /\ UNCHANGED <<len, size, list_shift, overflow_checks, panicked>>
    /\ UNCHANGED <<todoVars, viewVars>>

\* next() that tests len <= index() and so calls down() on the last item too
WidgetList_next_late ==
    /\ ~panicked
    /\ IF len <= index
       THEN /\ ret' = None
            /\ UNCHANGED <<selected, first>>
       ELSE LET old == index
                r == DownFrom(act, first)
            IN /\ selected' = r.act
               /\ first' = r.first
               /\ ret' = Some(old, IndexOf(r.act, r.first))
    /\ op' = "next"
    /\ downs' = -1
    /\ UNCHANGED <<len, size, list_shift, overflow_checks, panicked>>
    /\ UNCHANGED <<todoVars, viewVars>>

WidgetList_next ==
    /\ ~panicked
    /\ IF len <= Wrap(index + 1)
       THEN /\ ret' = None
            /\ UNCHANGED <<selected, first>>
       ELSE LET old == index
                r == DownFrom(act, first)
            IN /\ selected' = r.act
               /\ first' = r.first
               /\ ret' = Some(old, IndexOf(r.act, r.first))
    /\ op' = "next"
    /\ downs' = -1
    /\ UNCHANGED <<len, size, list_shift, overflow_checks, panicked>>
    /\ UNCHANGED <<todoVars, viewVars>>

\* prev() that tests index() == 0 instead of act() == 0
WidgetList_prev_by_index ==
    /\ ~panicked
    /\ IF index = 0
       THEN /\ ret' = None
            /\ UNCHANGED <<selected, first>>
       ELSE LET old == index
                r == UpFrom(act, first)
            IN /\ selected' = r.act
               /\ first' = r.first
               /\ ret' = Some(old, IndexOf(r.act, r.first))
    /\ op' = "prev"
    /\ downs' = -1
    /\ UNCHANGED <<len, size, list_shift, overflow_checks, panicked>>
    /\ UNCHANGED <<todoVars, viewVars>>

WidgetList_prev ==
    /\ ~panicked
    /\ IF act = 0
       THEN /\ ret' = None
            /\ UNCHANGED <<selected, first>>
       ELSE LET old == index
                r == UpFrom(act, first)
            IN /\ selected' = r.act
               /\ first' = r.first
               /\ ret' = Some(old, IndexOf(r.act, r.first))
    /\ op' = "prev"
    /\ downs' = -1
    /\ UNCHANGED <<len, size, list_shift, overflow_checks, panicked>>
    /\ UNCHANGED <<todoVars, viewVars>>

\* first() that resets the cursor and forgets the window
WidgetList_first_keeps_window ==
    /\ ~panicked
    /\ selected' = 0
    /\ first' = first
    /\ op' = "first"
    /\ ret' = None
    /\ downs' = 0
    /\ UNCHANGED <<len, size, list_shift, overflow_checks, panicked>>
    /\ UNCHANGED <<todoVars, viewVars>>

WidgetList_first ==
    /\ ~panicked
    /\ selected' = 0
    /\ first' = 0
    /\ op' = "first"
    /\ ret' = None
    /\ downs' = 0
    /\ UNCHANGED <<len, size, list_shift, overflow_checks, panicked>>
    /\ UNCHANGED <<todoVars, viewVars>>

WidgetList_last ==
    /\ ~panicked
    /\ LET r == LastResult(overflow_checks)
       IN /\ selected' = r.act
          /\ first' = r.first
          /\ panicked' = r.panic
    /\ op' = "last"
    /\ ret' = None
    /\ downs' = -1
    /\ UNCHANGED <<len, size, list_shift, overflow_checks>>
    /\ UNCHANGED <<todoVars, viewVars>>

\* WidgetList::new: row 0 selected, window at the top
WidgetList_new ==
    /\ selected = 0
    /\ first = 0
    /\ ret = None
    /\ downs = 0

(***************************************************************************)
(* ToDo                                                                    *)
(***************************************************************************)
\* A todo_txt::Task as far as the store reads it.  The three tag vectors are
\* only ever asked `contains`, so each is kept as the set of its values.
Task(subject, projects, contexts, hashtags, finished) ==
    [subject |-> subject, projects |-> projects, contexts |-> contexts,
     hashtags |-> hashtags, finished |-> finished]

\* the task lines the store is fed; a line is added at most once
TaskPool ==
    { Task("t1", {"p1"}, {}, {}, FALSE),
      Task("t2", {"p1", "p2"}, {"c1"}, {}, FALSE),
      Task("t3", {"p1", "p2"}, {"c1"}, {"h1"}, FALSE),
      Task("t4", {"p2"}, {"c1"}, {"h1"}, TRUE),
      Task("t5", {}, {}, {"h1"}, TRUE) }

\* the input that is no task line
Malformed == "?"

Lines == {t.subject : t \in TaskPool} \cup {Malformed}

Dimensions == {"projects", "contexts", "hashtags"}

\* the filter names a category view can offer per dimension
Names(d) ==
    CASE d = "projects" -> {"p1", "p2"}
      [] d = "contexts" -> {"c1"}
      [] d = "hashtags" -> {"h1"}

\* fn(&Task) -> &Vec<String>: |t| &t.projects, |t| &t.contexts, |t| &t.hashtags
Field(t, d) ==
    CASE d = "projects" -> t.projects
      [] d = "contexts" -> t.contexts
      [] d = "hashtags" -> t.hashtags

\* the filter set of a dimension
FilterSet(d) ==
    CASE d = "projects" -> project_filters
      [] d = "contexts" -> context_filters
      [] d = "hashtags" -> hashtag_filters

Range(s) == {s[i] : i \in 1..Len(s)}

\* Vec::remove(index), index counted from 0
VecRemove(v, i) == [k \in 1..(Len(v) - 1) |-> IF k <= i THEN v[k] ELSE v[k + 1]]

\* slice.iter().enumerate(): pairs (index from 0, task)
Enumerate(tasks) == [k \in 1..Len(tasks) |-> <<k - 1, tasks[k]>>]

\* the closure with `any` over the filters: one satisfied dimension is enough
PassesFiltersAnyDimension(entry, filters) ==
    \E k \in 1..Len(filters) :
        \A item \in filters[k][1] : item \in Field(entry[2], filters[k][2])

\* the closure with `any` over a filter's values: one value found is enough
PassesFiltersAnyValue(entry, filters) ==
    \A k \in 1..Len(filters) :
        \E item \in filters[k][1] : item \in Field(entry[2], filters[k][2])

\* the closure of get_filtered: every value of every filter is in the task's
\* tag vector of the filter's dimension
PassesFilters(entry, filters) ==
    \A k \in 1..Len(filters) :
        \A item \in filters[k][1] : item \in Field(entry[2], filters[k][2])

\* get_filtered that numbers the tasks after filtering them
get_filtered_late_enumerate(tasks, filters) ==
    Enumerate(SelectSeq(tasks, LAMBDA t : PassesFilters(<<0, t>>, filters)))

\* get_filtered: TaskList of (index, task)
get_filtered(tasks, filters) ==
    SelectSeq(Enumerate(tasks), LAMBDA entry : PassesFilters(entry, filters))

\* the FilterData array both callers of get_filtered build
AllFilters ==
    << <<project_filters, "projects">>,
       <<context_filters, "contexts">>,
       <<hashtag_filters, "hashtags">> >>

get_pending_filtered == get_filtered(pending, AllFilters)

get_done_filtered == get_filtered(done, AllFilters)

get_pending_all == Enumerate(pending)

get_done_all == Enumerate(done)

\* toggle_filter that only inserts
ToggleFilterInsertOnly(filter_set, filter) == filter_set \cup {filter}

\* toggle_filter on one set: insert, and remove when insert found it present
ToggleFilter(filter_set, filter) ==
    IF filter \in filter_set
    THEN filter_set \ {filter}
    ELSE filter_set \cup {filter}

\* Task::from_str of the collaborator parser: a task, or an error
Task_from_str(line) ==
    IF line = Malformed
    THEN [ok |-> FALSE, task |-> Task("", {}, {}, {}, FALSE)]
    ELSE [ok |-> TRUE, task |-> CHOOSE t \in TaskPool : t.subject = line]

InStore(t) == t \in Range(pending) \cup Range(done)

\* the store takes one more line
HasRoom(t) == ~InStore(t) /\ Len(pending) + Len(done) < MaxTasks

\* add_task that ignores task.finished
PushTaskAlwaysPending(task) ==
    /\ pending' = Append(pending, task)
    /\ UNCHANGED done

\* the push of add_task
PushTask(task) ==
    IF task.finished
    THEN /\ done' = Append(done, task)
         /\ UNCHANGED pending
    ELSE /\ pending' = Append(pending, task)
         /\ UNCHANGED done

add_task ==
    /\ ~panicked
    /\ \E task \in TaskPool :
        /\ HasRoom(task)
        /\ PushTask(task)
    /\ op' = "add_task"
    /\ arg' = 0
    /\ UNCHANGED <<use_done, project_filters, context_filters, hashtag_filters>>
    /\ UNCHANGED <<navVars, viewVars, panicked, ret>>

\* new_task that pushes every parsed task to pending
new_task_always_pending ==
    /\ ~panicked
    /\ \E line \in Lines :
        LET parsed == Task_from_str(line)
        IN IF ~parsed.ok
           THEN /\ op' = "new_task_err"
                /\ UNCHANGED <<pending, done>>
           ELSE /\ HasRoom(parsed.task)
                /\ op' = "new_task"
                /\ pending' = Append(pending, parsed.task)
                /\ UNCHANGED done
    /\ arg' = 0
    /\ UNCHANGED <<use_done, project_filters, context_filters, hashtag_filters>>
    /\ UNCHANGED <<navVars, viewVars, panicked, ret>>

new_task ==
    /\ ~panicked
    /\ \E line \in Lines :
        LET parsed == Task_from_str(line)
        IN IF ~parsed.ok
           THEN /\ op' = "new_task_err"
                /\ UNCHANGED <<pending, done>>
           ELSE /\ HasRoom(parsed.task)
                /\ op' = "new_task"
                /\ IF parsed.task.finished
                   THEN /\ done' = Append(done, parsed.task)
                        /\ UNCHANGED pending
                   ELSE /\ pending' = Append(pending, parsed.task)
                        /\ UNCHANGED done
    /\ arg' = 0
    /\ UNCHANGED <<use_done, project_filters, context_filters, hashtag_filters>>
    /\ UNCHANGED <<navVars, viewVars, panicked, ret>>

\* every name a tag can take, in the order of String's Ord (byte-wise)
NameOrder == <<"c1", "h1", "p1", "p2">>

Rank(name) == CHOOSE i \in 1..Len(NameOrder) : NameOrder[i] = name

StrLess(a, b) == Rank(a) < Rank(b)

\* BTreeSet::iter: the elements in ascending order
RECURSIVE BTreeIter(_)
BTreeIter(set) ==
    IF set = {}
    THEN <<>>
    ELSE LET least == CHOOSE x \in set : \A y \in set \ {x} : StrLess(x, y)
         IN <<least>> \o BTreeIter(set \ {least})

\* the tag values met when walking the lists task by task, in walking order
RECURSIVE TagsWalked(_, _)
TagsWalked(tasks, f) ==
    IF tasks = <<>>
    THEN <<>>
    ELSE IF Head(tasks) = <<>>
         THEN TagsWalked(Tail(tasks), f)
         ELSE BTreeIter(Field(Head(Head(tasks)), f))
                 \o TagsWalked(<<Tail(Head(tasks))>> \o Tail(tasks), f)

\* get_btree that flags no entry as selected
get_btree_unselected(tasks, f, selected_names) ==
    LET btree == UNION {UNION {Field(tasks[l][i], f) : i \in 1..Len(tasks[l])} :
                          l \in 1..Len(tasks)}
        items == BTreeIter(btree)
    IN [k \in 1..Len(items) |-> <<items[k], FALSE>>]

\* get_btree that pushes every tag to a Vec instead of inserting it in a BTreeSet
get_btree_vec(tasks, f, selected_names) ==
    LET walked == TagsWalked(tasks, f)
    IN [k \in 1..Len(walked) |-> <<walked[k], walked[k] \in selected_names>>]

\* get_btree: every tag of every task of every list inserted in a BTreeSet,
\* then one (name, selected) entry per element in iteration order
get_btree(tasks, f, selected_names) ==
    LET btree == UNION {UNION {Field(tasks[l][i], f) : i \in 1..Len(tasks[l])} :
                          l \in 1..Len(tasks)}
        items == BTreeIter(btree)
    IN [k \in 1..Len(items) |-> <<items[k], items[k] \in selected_names>>]

\* the vec![..] both done switches build
ListsDoneSwitch == IF use_done THEN <<pending, done>> ELSE <<pending>>

get_btree_done_switch(f, selected_names) ==
    get_btree(ListsDoneSwitch, f, selected_names)

get_projects == get_btree_done_switch("projects", project_filters)

get_contexts == get_btree_done_switch("contexts", context_filters)

get_hashtags == get_btree_done_switch("hashtags", hashtag_filters)

\* the category list of a dimension
get_categories(d) ==
    CASE d = "projects" -> get_projects
      [] d = "contexts" -> get_contexts
      [] d = "hashtags" -> get_hashtags

\* get_tasks: per list the tasks whose tag vector contains name, appended
RECURSIVE get_tasks(_, _, _)
get_tasks(tasks, name, f) ==
    IF tasks = <<>>
    THEN <<>>
    ELSE SelectSeq(Head(tasks), LAMBDA task : name \in Field(task, f))
            \o get_tasks(Tail(tasks), name, f)

\* get_tasks_done_switch that scans done whatever use_done says
get_tasks_done_switch_always(name, f) == get_tasks(<<pending, done>>, name, f)

get_tasks_done_switch(name, f) == get_tasks(ListsDoneSwitch, name, f)

get_project_tasks(name) == get_tasks_done_switch(name, "projects")

get_context_tasks(name) == get_tasks_done_switch(name, "contexts")

get_hashtag_tasks(name) == get_tasks_done_switch(name, "hashtags")

\* the drill-down list of a dimension
get_tasks_with_tag(d, name) ==
    CASE d = "projects" -> get_project_tasks(name)
      [] d = "contexts" -> get_context_tasks(name)
      [] d = "hashtags" -> get_hashtag_tasks(name)

\* Vec::swap_remove(index): the last element takes the place of the removed one
VecSwapRemove(v, i) ==
    [k \in 1..(Len(v) - 1) |-> IF k = i + 1 THEN v[Len(v)] ELSE v[k]]

\* move_task that takes the entry out with swap_remove
move_task_swap_remove(from, to, idx) ==
    IF Len(from) <= idx
    THEN [from |-> from, to |-> to]
    ELSE [from |-> VecSwapRemove(from, idx), to |-> Append(to, from[idx + 1])]

\* move_task that pushes a clone and leaves the entry in `from`
move_task_copy(from, to, idx) ==
    IF Len(from) <= idx
    THEN [from |-> from, to |-> to]
    ELSE [from |-> from, to |-> Append(to, from[idx + 1])]

\* move_task that clamps an index past the end to the last entry
move_task_clamped(from, to, idx) ==
    IF Len(from) = 0
    THEN [from |-> from, to |-> to]
    ELSE LET i == IF Len(from) <= idx THEN Len(from) - 1 ELSE idx
         IN [from |-> VecRemove(from, i), to |-> Append(to, from[i + 1])]

\* move_task(from, to, index): what it leaves in (from, to)
move_task(from, to, idx) ==
    IF Len(from) <= idx
    THEN [from |-> from, to |-> to]
    ELSE [from |-> VecRemove(from, idx), to |-> Append(to, from[idx + 1])]

move_pending_task ==
    /\ ~panicked
    /\ \E idx \in 0..Len(pending) :
        LET r == move_task(pending, done, idx)
        IN /\ pending' = r.from
           /\ done' = r.to
           /\ arg' = idx
    /\ op' = "move_pending_task"
    /\ UNCHANGED <<use_done, project_filters, context_filters, hashtag_filters>>
    /\ UNCHANGED <<navVars, viewVars, panicked, ret>>

move_done_task ==
    /\ ~panicked
    /\ \E idx \in 0..Len(done) :
        LET r == move_task(done, pending, idx)
        IN /\ done' = r.from
           /\ pending' = r.to
           /\ arg' = idx
    /\ op' = "move_done_task"
    /\ UNCHANGED <<use_done, project_filters, context_filters, hashtag_filters>>
    /\ UNCHANGED <<navVars, viewVars, panicked, ret>>

\* remove_pending_task guarded like move_task: an index past the end is ignored
remove_pending_task_silent ==
    /\ ~panicked
    /\ \E idx \in 0..Len(pending) :
        /\ arg' = idx
        /\ IF idx >= Len(pending)
           THEN UNCHANGED <<pending, panicked>>
           ELSE /\ pending' = VecRemove(pending, idx)
                /\ UNCHANGED panicked
    /\ op' = "remove_pending_task"
    /\ UNCHANGED <<done, use_done, project_filters, context_filters, hashtag_filters>>
    /\ UNCHANGED <<navVars, viewVars, ret>>

\* Vec::remove panics when index >= len
remove_pending_task ==
    /\ ~panicked
    /\ \E idx \in 0..Len(pending) :
        /\ arg' = idx
        /\ IF idx >= Len(pending)
           THEN /\ panicked' = TRUE
                /\ UNCHANGED pending
           ELSE /\ pending' = VecRemove(pending, idx)
                /\ UNCHANGED panicked
    /\ op' = "remove_pending_task"
    /\ UNCHANGED <<done, use_done, project_filters, context_filters, hashtag_filters>>
    /\ UNCHANGED <<navVars, viewVars, ret>>

finish_task ==
    /\ ~panicked
    /\ \E idx \in 0..Len(pending) :
        /\ arg' = idx
        /\ IF idx >= Len(pending)
           THEN /\ panicked' = TRUE
                /\ UNCHANGED <<pending, done>>
           ELSE /\ pending' = VecRemove(pending, idx)
                /\ done' = Append(done, pending[idx + 1])
                /\ UNCHANGED panicked
    /\ op' = "finish_task"
    /\ UNCHANGED <<use_done, project_filters, context_filters, hashtag_filters>>
    /\ UNCHANGED <<navVars, viewVars, ret>>

\* toggle_filter(&mut one of the three sets, name)
toggle_filter ==
    /\ ~panicked
    /\ \E d \in Dimensions : \E filter \in Names(d) :
        /\ project_filters' =
             IF d = "projects" THEN ToggleFilter(project_filters, filter)
             ELSE project_filters
        /\ context_filters' =
             IF d = "contexts" THEN ToggleFilter(context_filters, filter)
             ELSE context_filters
        /\ hashtag_filters' =
             IF d = "hashtags" THEN ToggleFilter(hashtag_filters, filter)
             ELSE hashtag_filters
    /\ op' = "toggle_filter"
    /\ arg' = 0
    /\ UNCHANGED <<pending, done, use_done>>
    /\ UNCHANGED <<navVars, viewVars, panicked, ret>>

\* no key handler has called the store yet
NoCall == [fn |-> "none", args |-> <<>>]

\* no template has been parsed
NotParsed == [ok |-> FALSE, panic |-> FALSE, lines |-> <<>>]

\* the parser is not used: the empty template, not parsed
ParserIdle ==
    /\ template = <<>>
    /\ parse_ret = NotParsed

\* the views are not used: a pending list view over the unfiltered sequence
\* and a projects view, idle
ViewsIdle ==
    /\ data_type = "Pending"
    /\ fn_data = "all"
    /\ category = "projects"
    /\ call = NoCall
    /\ ParserIdle

\* ToDo::new(use_done)
ToDo_new ==
    /\ pending = <<>>
    /\ done = <<>>
    /\ project_filters = {}
    /\ context_filters = {}
    /\ hashtag_filters = {}
    /\ arg = 0

(***************************************************************************)
(* StateList: the list view of one of the two sequences                    *)
(***************************************************************************)
ToDoData == {"Pending", "Done"}

\* the two TaskList getters a list view is built on, per sequence
FnData == {"all", "filtered"}

\* match &self.data_type { Pending => ..pending, Done => ..done }
ListOf(dt) == IF dt = "Pending" THEN pending ELSE done

\* (self.fn_data)(&self.data.borrow())
Data ==
    CASE data_type = "Pending" /\ fn_data = "all" -> get_pending_all
      [] data_type = "Pending" /\ fn_data = "filtered" -> get_pending_filtered
      [] data_type = "Done" /\ fn_data = "all" -> get_done_all
      [] data_type = "Done" /\ fn_data = "filtered" -> get_done_filtered

\* Vec::swap(i, j), indices counted from 0
VecSwap(v, i, j) ==
    [k \in 1..Len(v) |-> IF k = i + 1 THEN v[j + 1]
                          ELSE IF k = j + 1 THEN v[i + 1] ELSE v[k]]

\* remove(list, index): the entry at index leaves the sequence; an index past
\* the end is a caller bug and fails fast
remove_task(list, i) ==
    IF i >= Len(list)
    THEN [list |-> list, panic |-> TRUE]
    ELSE [list |-> VecRemove(list, i), panic |-> FALSE]

\* swap(list, i, j): the entries at i and j change places; an index past the
\* end is a caller bug and fails fast
swap_tasks(list, i, j) ==
    IF i >= Len(list) \/ j >= Len(list)
    THEN [list |-> list, panic |-> TRUE]
    ELSE [list |-> VecSwap(list, i, j), panic |-> FALSE]

\* set_active(list, index): marks a task as the active one; neither sequence
\* nor any filter set changes
set_active(list, i) == [list |-> list, panic |-> FALSE]

\* the store after the sequence of data_type became `list`
SetListOf(list) ==
    IF data_type = "Pending"
    THEN pending' = list /\ UNCHANGED done
    ELSE done' = list /\ UNCHANGED pending

\* what a key handler leaves alone besides the sequences and the selection
KeyFrame ==
    /\ UNCHANGED <<len, first, size, list_shift, overflow_checks, downs>>
    /\ UNCHANGED <<use_done, project_filters, context_filters, hashtag_filters>>
    /\ UNCHANGED <<data_type, fn_data, category, parserVars>>
    /\ ret' = None

\* `self.state.select(Some(len - 1))` of the 'x' and 'd' arms, reached when
\* len <= i: the subtraction panics on len = 0 in a checked build and wraps
\* in a wrapping one
SelectLastRow(n) ==
    IF n < 1 /\ overflow_checks
    THEN /\ panicked' = TRUE
         /\ UNCHANGED selected
    ELSE /\ selected' = Wrap(n - 1)
         /\ UNCHANGED panicked

\* a + b panics: it overflows usize in a checked build
AddOverflows(a, b) == a + b >= UsizeMod /\ overflow_checks

\* KeyCode::Char('j')
StateList_handle_key_j ==
    /\ ~panicked
    /\ IF AddOverflows(selected, 1)
       THEN /\ panicked' = TRUE
            /\ UNCHANGED selected
       ELSE /\ LET a == Wrap(selected + 1)
               IN IF Len(Data) > a
                  THEN selected' = a
                  ELSE UNCHANGED selected
            /\ UNCHANGED panicked
    /\ op' = "j"
    /\ call' = NoCall
    /\ arg' = 0
    /\ UNCHANGED <<pending, done>>
    /\ KeyFrame

\* KeyCode::Char('k')
StateList_handle_key_k ==
    /\ ~panicked
    /\ IF 0 < selected
       THEN selected' = selected - 1
       ELSE UNCHANGED selected
    /\ op' = "k"
    /\ call' = NoCall
    /\ arg' = 0
    /\ UNCHANGED <<pending, done, panicked>>
    /\ KeyFrame

\* 'U' that swaps the tasks and leaves the selection on the old row
StateList_handle_key_U_keeps_row ==
    /\ ~panicked
    /\ IF selected > 0
       THEN LET r == swap_tasks(ListOf(data_type), selected, selected - 1)
            IN /\ call' = [fn |-> "swap_tasks", args |-> <<selected, selected - 1>>]
               /\ arg' = selected
               /\ SetListOf(r.list)
               /\ panicked' = r.panic
               /\ UNCHANGED selected
       ELSE /\ call' = NoCall
            /\ arg' = 0
            /\ UNCHANGED <<pending, done, selected, panicked>>
    /\ op' = "U"
    /\ KeyFrame

\* KeyCode::Char('U')
StateList_handle_key_U ==
    /\ ~panicked
    /\ IF selected > 0
       THEN LET r == swap_tasks(ListOf(data_type), selected, selected - 1)
            IN /\ call' = [fn |-> "swap_tasks", args |-> <<selected, selected - 1>>]
               /\ arg' = selected
               /\ SetListOf(r.list)
               /\ panicked' = r.panic
               /\ IF r.panic
                  THEN UNCHANGED selected
                  ELSE selected' = selected - 1
       ELSE /\ call' = NoCall
            /\ arg' = 0
            /\ UNCHANGED <<pending, done, selected, panicked>>
    /\ op' = "U"
    /\ KeyFrame

\* KeyCode::Char('D')
StateList_handle_key_D ==
    /\ ~panicked
    /\ IF AddOverflows(selected, 1)
       THEN /\ panicked' = TRUE
            /\ call' = NoCall
            /\ arg' = 0
            /\ UNCHANGED <<pending, done, selected>>
       ELSE LET a == Wrap(selected + 1)
            IN IF a < Len(ListOf(data_type))
               THEN LET r == swap_tasks(ListOf(data_type), a, Wrap(a - 1))
                    IN /\ call' = [fn |-> "swap_tasks", args |-> <<a, Wrap(a - 1)>>]
                       /\ arg' = a
                       /\ SetListOf(r.list)
                       /\ panicked' = r.panic
                       /\ IF r.panic
                          THEN UNCHANGED selected
                          ELSE selected' = a
               ELSE /\ call' = NoCall
                    /\ arg' = 0
                    /\ UNCHANGED <<pending, done, selected, panicked>>
    /\ op' = "D"
    /\ KeyFrame

\* KeyCode::Char('x')
StateList_handle_key_x ==
    /\ ~panicked
    /\ LET i == selected
           r == remove_task(ListOf(data_type), i)
       IN /\ call' = [fn |-> "remove_task", args |-> <<i>>]
          /\ arg' = i
          /\ SetListOf(r.list)
          /\ IF r.panic
             THEN /\ panicked' = TRUE
                  /\ UNCHANGED selected
             ELSE IF Len(r.list) <= i
                  THEN SelectLastRow(Len(r.list))
                  ELSE UNCHANGED <<selected, panicked>>
    /\ op' = "x"
    /\ KeyFrame

\* (self.fn_move)(&mut todo, i): move_pending_task for the pending view and
\* move_done_task for the done view
fn_move(i) ==
    IF data_type = "Pending"
    THEN [name |-> "move_pending_task", r |-> move_task(pending, done, i)]
    ELSE [name |-> "move_done_task", r |-> move_task(done, pending, i)]

\* KeyCode::Char('d')
StateList_handle_key_d ==
    /\ ~panicked
    /\ LET i == selected
           m == fn_move(i)
       IN /\ call' = [fn |-> m.name, args |-> <<i>>]
          /\ arg' = i
          /\ IF data_type = "Pending"
             THEN pending' = m.r.from /\ done' = m.r.to
             ELSE done' = m.r.from /\ pending' = m.r.to
          /\ IF Len(m.r.from) <= i
             THEN SelectLastRow(Len(m.r.from))
             ELSE UNCHANGED <<selected, panicked>>
    /\ op' = "d"
    /\ KeyFrame

\* KeyCode::Enter
StateList_handle_key_Enter ==
    /\ ~panicked
    /\ LET i == selected
           r == set_active(ListOf(data_type), i)
       IN /\ call' = [fn |-> "set_active", args |-> <<i>>]
          /\ arg' = i
          /\ SetListOf(r.list)
          /\ panicked' = r.panic
    /\ op' = "Enter"
    /\ UNCHANGED selected
    /\ KeyFrame

\* StateList::new: row 0 selected
StateList_new ==
    /\ selected = 0
    /\ call = NoCall

(***************************************************************************)
(* StateCategories: the view of the categories of one dimension            *)
(***************************************************************************)
\* CategoryList::get_name(index): the name of the entry at index
get_name(categories, i) == categories[i + 1][1]

\* StateCategories::len
StateCategories_len == Len(get_categories(category))

\* WidgetList::handle_key(event, len) on a navigation key: the navigator runs
\* the operation over a list of `len` entries and reports the key as consumed.
\* The caller passes StateCategories::len; no action of a categories view
\* changes the tasks, so this is the length the navigator holds already.
WidgetList_handle_key ==
    /\ len = StateCategories_len
    /\ \/ WidgetList_down
       \/ WidgetList_up
       \/ WidgetList_first
       \/ WidgetList_last

\* StateCategories::handle_key on a key the navigator consumes
StateCategories_handle_key_consumed == WidgetList_handle_key

\* StateCategories::handle_key on Enter, which the navigator does not consume
StateCategories_handle_key_Enter ==
    /\ ~panicked
    /\ LET categories == get_categories(category)
       IN IF act >= Len(categories)
          THEN /\ panicked' = TRUE
               /\ call' = NoCall
               /\ UNCHANGED <<project_filters, context_filters, hashtag_filters>>
          ELSE LET name == get_name(categories, act)
               IN /\ call' = [fn |-> "toggle_filter", args |-> <<name>>]
                  /\ project_filters' =
                       IF category = "projects"
                       THEN ToggleFilter(project_filters, name)
                       ELSE project_filters
                  /\ context_filters' =
                       IF category = "contexts"
                       THEN ToggleFilter(context_filters, name)
                       ELSE context_filters
                  /\ hashtag_filters' =
                       IF category = "hashtags"
                       THEN ToggleFilter(hashtag_filters, name)
                       ELSE hashtag_filters
                  /\ UNCHANGED panicked
    /\ op' = "Enter"
    /\ ret' = None
    /\ arg' = 0
    /\ UNCHANGED <<pending, done, use_done>>
    /\ UNCHANGED <<data_type, fn_data, category, parserVars>>
    /\ UNCHANGED navVars

(***************************************************************************)
(* Parser: the status-line template parser                                 *)
(***************************************************************************)
NewLine == "NL"

BackSlash == "BS"

\* the characters a template is written with: '[', ']', '(', ')', the
\* backslash, the newline and one character with no meaning to the parser
TemplateChars == {"[", "]", "(", ")", BackSlash, NewLine, "a"}

Templates == UNION {[1..n -> TemplateChars] : n \in 0..MaxTemplate}

\* A String built while parsing is kept as the sequence of the template
\* positions its characters were taken from.
Ok(result) == [ok |-> TRUE, panic |-> FALSE, lines |-> result]

\* Option::unwrap on None
Unwrapped == [ok |-> FALSE, panic |-> TRUE, lines |-> <<>>]

\* Parser::read_block from position i on: the characters read up to the
\* delimiter, the position after it, and whether an unwrap failed
RECURSIVE read_block(_, _, _, _)
read_block(t, i, delimiter, read) ==
    IF i > Len(t)
    THEN [read |-> read, next |-> i, panic |-> FALSE]
    ELSE IF t[i] = BackSlash
         THEN IF i + 1 > Len(t)
              THEN [read |-> read, next |-> i + 1, panic |-> TRUE]
              ELSE read_block(t, i + 2, delimiter, Append(read, i + 1))
         ELSE IF t[i] = delimiter
              THEN [read |-> read, next |-> i + 1, panic |-> FALSE]
              ELSE read_block(t, i + 1, delimiter, Append(read, i))

\* Line::add_span: a span of plain text, nothing for the empty string
add_span(line, text) ==
    IF text = <<>>
    THEN line
    ELSE Append(line, [text |-> text, styled |-> FALSE, style |-> <<>>])

\* Line::add_span_styled: a span of block text with its optional style
add_span_styled(line, block, styled, style) ==
    Append(line, [text |-> block, styled |-> styled, style |-> style])

\* the loop of Parser::parse from position i on, with the lines pushed so
\* far, the line being built and the text being collected
RECURSIVE parse_loop(_, _, _, _, _)
parse_loop(t, i, lines, line, text) ==
    IF i > Len(t)
    THEN Ok(Append(lines, add_span(line, text)))
    ELSE CASE t[i] = "[" ->
                LET block == read_block(t, i + 1, "]", <<>>)
                    spanned == add_span(line, text)
                    j == block.next
                IN IF block.panic
                   THEN Unwrapped
                   ELSE IF j > Len(t)
                   THEN Ok(Append(lines, add_span(spanned, block.read)))
                   ELSE IF t[j] = "("
                   THEN LET style == read_block(t, j + 1, ")", <<>>)
                        IN IF style.panic
                           THEN Unwrapped
                           ELSE parse_loop(t, style.next, lines,
                                    add_span_styled(spanned, block.read, TRUE,
                                                    style.read),
                                    <<>>)
                   ELSE IF t[j] = BackSlash
                   THEN IF j + 1 > Len(t)
                        THEN Unwrapped
                        ELSE parse_loop(t, j + 2, lines,
                                 add_span_styled(spanned, block.read, FALSE, <<>>),
                                 <<j + 1>>)
                   ELSE parse_loop(t, j + 1, lines,
                            add_span_styled(spanned, block.read, FALSE, <<>>),
                            <<j>>)
           [] t[i] = BackSlash ->
                IF i + 1 > Len(t)
                THEN Unwrapped
                ELSE parse_loop(t, i + 2, lines, line, Append(text, i + 1))
           [] t[i] = NewLine ->
                parse_loop(t, i + 1, Append(lines, add_span(line, text)), <<>>, <<>>)
           [] OTHER ->
                parse_loop(t, i + 1, lines, line, Append(text, i))

\* Parser::parse
Parser_parse(t) == parse_loop(t, 1, <<>>, <<>>, <<>>)

\* Parser::from_str
Parser_from_str ==
    /\ ~panicked
    /\ parse_ret = NotParsed
    /\ parse_ret' = Parser_parse(template)
    /\ panicked' = parse_ret'.panic
    /\ op' = "from_str"
    /\ UNCHANGED template
    /\ UNCHANGED <<data_type, fn_data, category, call>>
    /\ UNCHANGED <<navVars, todoVars, ret>>

(***************************************************************************)
(* Specifications                                                          *)
(***************************************************************************)
\* a navigator configured as the data model requires, 0 <= shift < windowSize,
\* over a list of fixed length
Init ==
    /\ len \in 0..MaxLen
    /\ size \in 1..MaxSize
    /\ list_shift \in 0..(size - 1)
    /\ overflow_checks \in BOOLEAN
    /\ WidgetList_new
    /\ ToDo_new
    /\ use_done = FALSE
    /\ ViewsIdle
    /\ panicked = FALSE
    /\ op = "new"

\* any configuration, also size = 0 as left by new() before set_size
InitAnyConfig ==
    /\ len \in 0..MaxLen
    /\ size \in 0..MaxSize
    /\ list_shift \in 0..MaxShift
    /\ overflow_checks \in BOOLEAN
    /\ WidgetList_new
    /\ ToDo_new
    /\ use_done = FALSE
    /\ ViewsIdle
    /\ panicked = FALSE
    /\ op = "new"

\* testing_widget(50) under every shift a viewport of 10 admits
InitScenario ==
    /\ len = ScenarioLen
    /\ size = ScenarioSize
    /\ list_shift \in 0..(ScenarioSize - 1)
    /\ overflow_checks \in BOOLEAN
    /\ WidgetList_new
    /\ ToDo_new
    /\ use_done = FALSE
    /\ ViewsIdle
    /\ panicked = FALSE
    /\ op = "new"

\* an empty store; the navigator is not used
InitToDo ==
    /\ ToDo_new
    /\ use_done \in BOOLEAN
    /\ len = 0
    /\ size = 0
    /\ list_shift = 0
    /\ overflow_checks = TRUE
    /\ WidgetList_new
    /\ ViewsIdle
    /\ panicked = FALSE
    /\ op = "new"

\* the task of the pool that a line parses to
TaskOf(subject) == CHOOSE t \in TaskPool : t.subject = subject

\* the sequences a loaded file leaves: its open lines and its completed lines,
\* in file order
LoadedPending == <<TaskOf("t1"), TaskOf("t2"), TaskOf("t3")>>

LoadedDone == <<TaskOf("t4"), TaskOf("t5")>>

\* a list view of either sequence, over either getter, on a store loaded with
\* up to MaxTasks lines (none too); no filter is active yet
InitStateList ==
    /\ \E n \in 0..Len(LoadedPending) : \E m \in 0..Len(LoadedDone) :
          /\ n + m <= MaxTasks
          /\ pending = SubSeq(LoadedPending, 1, n)
          /\ done = SubSeq(LoadedDone, 1, m)
    /\ project_filters = {}
    /\ context_filters = {}
    /\ hashtag_filters = {}
    /\ arg = 0
    /\ use_done = FALSE
    /\ data_type \in ToDoData
    /\ fn_data \in FnData
    /\ category = "projects"
    /\ StateList_new
    /\ ParserIdle
    /\ overflow_checks \in BOOLEAN
    /\ len = 0
    /\ size = 0
    /\ list_shift = 0
    /\ first = 0
    /\ ret = None
    /\ downs = 0
    /\ panicked = FALSE
    /\ op = "new"

\* the same list view in a build that checks integer overflow
InitFilteredList ==
    /\ InitStateList
    /\ overflow_checks = TRUE

\* a categories view of any dimension over a loaded store, its navigator
\* sized by the layout and fed the length of the category list
InitCategories ==
    /\ \E n \in 0..Len(LoadedPending) : \E m \in 0..Len(LoadedDone) :
          /\ n + m <= MaxTasks
          /\ pending = SubSeq(LoadedPending, 1, n)
          /\ done = SubSeq(LoadedDone, 1, m)
    /\ project_filters = {}
    /\ context_filters = {}
    /\ hashtag_filters = {}
    /\ arg = 0
    /\ use_done \in BOOLEAN
    /\ category \in Dimensions
    /\ data_type = "Pending"
    /\ fn_data = "all"
    /\ call = NoCall
    /\ ParserIdle
    /\ size \in 1..MaxSize
    /\ list_shift \in 0..(size - 1)
    /\ len = StateCategories_len
    /\ overflow_checks \in BOOLEAN
    /\ WidgetList_new
    /\ panicked = FALSE
    /\ op = "new"

\* any template of up to MaxTemplate characters, not parsed yet
InitParser ==
    /\ template \in Templates
    /\ parse_ret = NotParsed
    /\ data_type = "Pending"
    /\ fn_data = "all"
    /\ category = "projects"
    /\ call = NoCall
    /\ ToDo_new
    /\ use_done = FALSE
    /\ len = 0
    /\ size = 0
    /\ list_shift = 0
    /\ overflow_checks = TRUE
    /\ WidgetList_new
    /\ panicked = FALSE
    /\ op = "new"

\* a categories view of any dimension over an empty store, its cursor on the
\* first row of the category list
InitCategoryStore ==
    /\ ToDo_new
    /\ use_done \in BOOLEAN
    /\ category \in Dimensions
    /\ data_type = "Pending"
    /\ fn_data = "all"
    /\ call = NoCall
    /\ ParserIdle
    /\ len = 0
    /\ size = 0
    /\ list_shift = 0
    /\ overflow_checks = TRUE
    /\ WidgetList_new
    /\ panicked = FALSE
    /\ op = "new"

Next ==
    \/ WidgetList_down
    \/ WidgetList_up
    \/ WidgetList_first
    \/ WidgetList_last
    \/ WidgetList_next
    \/ WidgetList_prev

NextToDo ==
    \/ add_task
    \/ new_task
    \/ move_pending_task
    \/ move_done_task
    \/ remove_pending_task
    \/ finish_task
    \/ toggle_filter

\* the key events of a list view
NextStateList ==
    \/ StateList_handle_key_j
    \/ StateList_handle_key_k
    \/ StateList_handle_key_U
    \/ StateList_handle_key_D
    \/ StateList_handle_key_x
    \/ StateList_handle_key_d
    \/ StateList_handle_key_Enter

\* the key events of a list view between the filter toggles of the category
\* views
NextFilteredList ==
    \/ StateList_handle_key_j
    \/ StateList_handle_key_k
    \/ StateList_handle_key_U
    \/ StateList_handle_key_D
    \/ StateList_handle_key_x
    \/ StateList_handle_key_d
    \/ StateList_handle_key_Enter
    \/ toggle_filter

NextCategories ==
    \/ StateCategories_handle_key_consumed
    \/ StateCategories_handle_key_Enter

NextParser == Parser_from_str

\* the store operations between the Enter keys of a categories view, which
\* toggle the filter of a category the view lists
NextCategoryStore ==
    \/ add_task
    \/ move_pending_task
    \/ move_done_task
    \/ remove_pending_task
    \/ finish_task
    \/ StateCategories_handle_key_Enter

Spec == Init /\ [][Next]_vars

SpecAnyConfig == InitAnyConfig /\ [][Next]_vars

SpecScenario == InitScenario /\ [][Next]_vars

SpecToDo == InitToDo /\ [][NextToDo]_vars

SpecStateList == InitStateList /\ [][NextStateList]_vars

SpecFilteredList == InitFilteredList /\ [][NextFilteredList]_vars

SpecCategories == InitCategories /\ [][NextCategories]_vars

SpecParser == InitParser /\ [][NextParser]_vars

SpecCategoryStore == InitCategoryStore /\ [][NextCategoryStore]_vars

(***************************************************************************)
(* Properties                                                              *)
(***************************************************************************)
\* selection + windowStart as a number, without the usize wrap of index()
AbsIndex == selected + first

Max(a, b) == IF a >= b THEN a ELSE b

\* C1: in every state reachable by down, up, first, last, next and prev with
\* len and size fixed and 0 <= shift < size: 0 <= selection < size, and
\* first + selection < len whenever len > 0, and first <= max(0, len - size).
C1_NavigatorInvariant ==
    /\ 0 <= selected
    /\ selected < size
    /\ (len > 0 => first + selected < len)
    /\ first <= Max(0, len - size)

\* C2: for every len >= 1, every size and shift, and every k in 0..len-1,
\* k calls of down() from (selection 0, first 0) leave index() = k.
C2_DownKTimes ==
    (len >= 1 /\ downs >= 0 /\ downs <= len - 1) => index = downs

\* k = len - 1 downs on a list longer than the window: the window has scrolled
\* and the cursor has moved
C2_Witness ==
    /\ len = MaxLen
    /\ size > 0
    /\ size < len
    /\ downs = len - 1
    /\ first > 0
    /\ selected > 0

\* the three checkpoints of the scenario size = 10, len = 50
ScenarioCheckpoints ==
    /\ (downs = 5 => (index = 5 /\ first = 0))
    /\ (downs = 6 => (index = 6 /\ first = 1 /\ selected = 5))
    /\ (downs >= ScenarioLen - 1 => (index = 49 /\ first = 40 /\ selected = 9))

\* C3 as stated: with size 10, len 50 and shift 0, five downs give index 5 and
\* first 0, the sixth gives index 6, first 1 and selection 5, and downs to the
\* end give index 49, first 40 and selection 9.
C3_ScenarioShift0 == list_shift = 0 => ScenarioCheckpoints

\* C3 amended: the same checkpoints hold with size 10, len 50 and shift 4.
C3_ScenarioShift4 == list_shift = 4 => ScenarioCheckpoints

\* the end of the list reached by downs alone under shift 4
C3_Witness ==
    /\ list_shift = 4
    /\ downs = ScenarioLen - 1
    /\ first = 40
    /\ selected = 9

\* a task meets every dimension whose filter set is not empty
MeetsFilters(t) ==
    \A d \in Dimensions : FilterSet(d) # {} => FilterSet(d) \subseteq Field(t, d)

\* the filtered view returns exactly the entries of `list` that meet the filters
ReturnsExactlyMeeting(list, view) ==
    /\ \A i \in 1..Len(list) :
          (<<i - 1, list[i]>> \in Range(view)) <=> MeetsFilters(list[i])
    /\ Len(view) = Cardinality({i \in 1..Len(list) : MeetsFilters(list[i])})

\* C4: get_filtered returns a task of the list iff, for every dimension with a
\* non-empty filter set, every value of the set is among the task's tags of
\* that dimension; for the pending and for the done sequence.
C4_FilteredIffMeets ==
    /\ ReturnsExactlyMeeting(pending, get_pending_filtered)
    /\ ReturnsExactlyMeeting(done, get_done_filtered)

\* two dimensions filter, two values in one of them; a pending task is kept,
\* another dropped, and a done task is kept
C4_Witness ==
    /\ project_filters = {"p1", "p2"}
    /\ context_filters = {"c1"}
    /\ Len(pending) = 2
    /\ Len(get_pending_filtered) = 1
    /\ Len(get_done_filtered) = 1

\* the view's entries carry their index in `list`, in increasing order
IndexedSubsequence(list, view) ==
    /\ \A k \in 1..Len(view) :
          /\ view[k][1] < Len(list)
          /\ view[k][2] = list[view[k][1] + 1]
    /\ \A k \in 1..(Len(view) - 1) : view[k][1] < view[k + 1][1]

\* C5: every entry (i, T) of get_filtered(list) has T = list[i], and the
\* indices are strictly increasing.
C5_OriginalIndices ==
    /\ IndexedSubsequence(pending, get_pending_filtered)
    /\ IndexedSubsequence(done, get_done_filtered)

\* a view of two entries that skips the first task of the list
C5_Witness ==
    /\ Len(pending) = 3
    /\ Len(get_pending_filtered) = 2
    /\ get_pending_filtered[1][1] = 1
    /\ get_pending_filtered[2][1] = 2

\* the step toggles `name` in dimension d and touches nothing else
TogglesOnly(d, name) ==
    /\ FilterSet(d)' =
          IF name \in FilterSet(d)
          THEN FilterSet(d) \ {name}
          ELSE FilterSet(d) \cup {name}
    /\ ToggleFilter(FilterSet(d)', name) = FilterSet(d)
    /\ ToggleFilter(ToggleFilter(FilterSet(d), name), name) = FilterSet(d)
    /\ \A e \in Dimensions \ {d} : FilterSet(e)' = FilterSet(e)
    /\ pending' = pending
    /\ done' = done

\* C6: toggle_filter(d, name) adds name to the filter set of d if absent and
\* removes it if present, so twice restores the set; the other filter sets and
\* both task sequences are unchanged.
C6_ToggleIsXor ==
    [][op' = "toggle_filter" =>
          \E d \in Dimensions : \E name \in Names(d) : TogglesOnly(d, name)]_vars

NoFilters ==
    /\ project_filters = {}
    /\ context_filters = {}
    /\ hashtag_filters = {}

\* a toggle has just removed the last active filter of a store with tasks
C6_Witness ==
    /\ op = "toggle_filter"
    /\ NoFilters
    /\ Len(pending) >= 1
    /\ Len(done) >= 1

\* C7: with all three filter sets empty get_filtered(list) equals
\* get_all(list), also after a filter was toggled on and off again.
C7_NoFilterIsAll ==
    NoFilters =>
        /\ get_pending_filtered = get_pending_all
        /\ get_done_filtered = get_done_all

\* back to no filter by a toggle, over two pending tasks and a done one
C7_Witness ==
    /\ op = "toggle_filter"
    /\ NoFilters
    /\ Len(pending) = 2
    /\ Len(done) = 1

\* C8: next() returns None and changes nothing exactly when index() + 1 >= len;
\* otherwise it returns (old, new) with old the index before the call and
\* new = old + 1 the index after it.
C8_NextContract ==
    [][op' = "next" =>
          IF AbsIndex + 1 >= len
          THEN /\ ret' = None
               /\ selected' = selected
               /\ first' = first
          ELSE /\ ret' = Some(AbsIndex, AbsIndex + 1)
               /\ AbsIndex' = AbsIndex + 1]_vars

\* next() has stepped onto the last item of a scrolled list
C8_Witness ==
    /\ op = "next"
    /\ ret.some
    /\ ret.new = len - 1
    /\ ret.new = AbsIndex
    /\ first > 0

C10_PrevNoneOnlyAtBeginning ==
    (op = "prev" /\ ~ret.some /\ len > 0 /\ first + size <= len) => AbsIndex = 0

\* C11: first() from any state sets selection = 0 and first = 0, changes
\* neither len, size nor shift, and first(); first() equals first().
C11_FirstResets ==
    [][op' = "first" =>
          /\ selected' = 0
          /\ first' = 0
          /\ AbsIndex' = 0
          /\ len' = len /\ size' = size /\ list_shift' = list_shift
          /\ (op = "first" => (selected' = selected /\ first' = first))]_vars

\* first() has run on a list longer than the window
C11_Witness ==
    /\ op = "first"
    /\ AbsIndex = 0
    /\ len > size

\* C12: for len >= 1 and size >= 1, last() from any state leaves
\* index() = len - 1, with (first 0, selection len - 1) if len <= size and
\* (first len - size, selection size - 1) otherwise; last(); last() equals
\* last().
C12_LastPosition ==
    [][(op' = "last" /\ len >= 1 /\ size >= 1) =>
          /\ ~panicked'
          /\ AbsIndex' = len - 1
          /\ IF len <= size
             THEN first' = 0 /\ selected' = len - 1
             ELSE first' = len - size /\ selected' = size - 1
          /\ (op = "last" => (selected' = selected /\ first' = first))]_vars

\* last() has put the window at the tail of a list longer than it
C12_Witness ==
    /\ op = "last"
    /\ size >= 2
    /\ len > size
    /\ first = len - size
    /\ selected = size - 1

\* one of selection and first changed by exactly 1, or neither changed
AtMostOneByOne ==
    \/ selected' = selected /\ first' = first
    \/ selected' = selected /\ (first' = first + 1 \/ first' = first - 1)
    \/ first' = first /\ (selected' = selected + 1 \/ selected' = selected - 1)

\* C20: in every reachable state of a configured navigator, down() adds
\* exactly 1 to index() when index() + 1 < len and changes nothing when
\* index() = len - 1; up() takes exactly 1 from index() when index() > 0 and
\* changes nothing when index() = 0; each call changes at most one of
\* selection and first, by exactly 1.
C20_StepByOne ==
    [][/\ op' = "down" =>
            /\ AtMostOneByOne
            /\ (AbsIndex + 1 < len => AbsIndex' = AbsIndex + 1)
            /\ (AbsIndex = len - 1 => (selected' = selected /\ first' = first))
       /\ op' = "up" =>
            /\ AtMostOneByOne
            /\ (AbsIndex > 0 => AbsIndex' = AbsIndex - 1)
            /\ (AbsIndex = 0 => (selected' = selected /\ first' = first))]_vars

\* up() has scrolled the window back by one row under a parked cursor
C20_Witness ==
    /\ op = "up"
    /\ first > 0
    /\ selected > 0
    /\ selected <= list_shift
    /\ first + size < len

\* C21: with len > size and 0 <= shift < size, in every state reached from
\* (selection 0, first 0) by down() calls only, selection <= size - 1 - shift
\* as long as first + size < len; selection exceeds size - 1 - shift only
\* once first + size = len.
C21_SoftScroll ==
    (len > size /\ downs >= 0) =>
        /\ (first + size < len => selected <= size - 1 - list_shift)
        /\ (selected > size - 1 - list_shift => first + size = len)

\* downs alone have scrolled the window under a cursor parked shift rows
\* above the bottom row, and the tail is not reached yet
C21_Witness ==
    /\ op = "down"
    /\ downs > 0
    /\ list_shift > 0
    /\ first > 0
    /\ first + size < len
    /\ selected = size - 1 - list_shift

Min(a, b) == IF a <= b THEN a ELSE b

\* the (act, first) left by n down() calls in a row from (a, f)
RECURSIVE DownTimes(_, _, _)
DownTimes(n, a, f) ==
    IF n = 0
    THEN [act |-> a, first |-> f]
    ELSE LET r == DownFrom(a, f) IN DownTimes(n - 1, r.act, r.first)

\* the (act, first) left by n up() calls in a row from (a, f)
RECURSIVE UpTimes(_, _, _)
UpTimes(n, a, f) ==
    IF n = 0
    THEN [act |-> a, first |-> f]
    ELSE LET r == UpFrom(a, f) IN UpTimes(n - 1, r.act, r.first)

\* where last() and first() put the navigator
AtLast == [act |-> Min(len, size) - 1, first |-> Max(0, len - size)]

AtFirst == [act |-> 0, first |-> 0]

\* C22: from every reachable state of a configured navigator over a list of
\* len >= 1, len - 1 down() calls in a row reach the state last() produces and
\* len - 1 up() calls in a row reach the state first() produces; one more
\* call in the same direction changes nothing.
C22_ConvergesAtEnds ==
    len >= 1 =>
        /\ DownTimes(len - 1, act, first) = AtLast
        /\ DownFrom(AtLast.act, AtLast.first) = AtLast
        /\ UpTimes(len - 1, act, first) = AtFirst
        /\ UpFrom(AtFirst.act, AtFirst.first) = AtFirst
        /\ (op = "last" => [act |-> act, first |-> first] = AtLast)
        /\ (op = "first" => [act |-> act, first |-> first] = AtFirst)

\* up() has left the navigator in the middle of a list longer than the
\* window, with the cursor parked and rows left on both sides
C22_Witness ==
    /\ op = "up"
    /\ list_shift > 0
    /\ first > 0
    /\ first + size < len
    /\ selected > 0
    /\ DownTimes(len - 1, act, first) = AtLast
    /\ UpTimes(len - 1, act, first) = AtFirst

\* the sequence the list view addresses
ViewList == ListOf(data_type)

\* the sequence the list view does not address
OtherList == IF data_type = "Pending" THEN done ELSE pending

\* C23: in every state reachable from StateList::new by key events over a
\* store with any contents, an empty list included, every index handle_key
\* passes to remove_task, swap_tasks or set_active is smaller than the length
\* of the addressed sequence.
C23_IndexInRange ==
    [][call'.fn \in {"remove_task", "swap_tasks", "set_active"} =>
          \A k \in 1..Len(call'.args) : call'.args[k] < Len(ViewList)]_vars

\* the store call of the 'x' arm itself failed: the handler never came to
\* the selection
RemoveFailed == op' = "x" /\ selected >= Len(ViewList)

\* C24: after StateList handles 'x' or 'd' the selection is a row of the
\* remaining list: selected < len whenever len > 0, and when the list has
\* become or already was empty, len - 1 is not computed with an unsigned
\* underflow and the selection stays 0.
C24_SelectionValidAfterRemove ==
    [][(op' \in {"x", "d"} /\ ~RemoveFailed) =>
          /\ ~panicked'
          /\ (Len(ViewList') > 0 => selected' < Len(ViewList'))
          /\ (Len(ViewList') = 0 => selected' = 0)]_vars

\* the entries at rows i and j (from 0) of `before` have changed places in
\* `after`, every other row is as it was
Exchanged(before, after, i, j) ==
    /\ Len(after) = Len(before)
    /\ after[i + 1] = before[j + 1]
    /\ after[j + 1] = before[i + 1]
    /\ \A k \in 1..Len(before) : (k # i + 1 /\ k # j + 1) => after[k] = before[k]

\* the key changed neither sequence nor the selection
KeyIsNoOp ==
    /\ pending' = pending
    /\ done' = done
    /\ selected' = selected
    /\ ~panicked'

C26_PassesOriginalIndex ==
    [][(op' \in {"x", "d"} /\ fn_data = "filtered" /\ selected < Len(Data)) =>
          call'.args = <<Data[selected + 1][1]>>]_vars

\* C28: after a filter toggle changes the length of a list view's filtered
\* sequence the view's selection is reset before its next use, so that it
\* names a row of the new sequence whenever that is not empty.
C28_ResetAfterToggle ==
    [][(/\ op' = "toggle_filter"
        /\ selected < Len(Data)
        /\ Len(Data') # Len(Data)
        /\ Len(Data') > 0) => selected' < Len(Data')]_vars

\* the sequence without its entry at index i (from 0), the rest in order
RemoveAt(s, i) == SubSeq(s, 1, i) \o SubSeq(s, i + 2, Len(s))

FiltersUnchanged ==
    /\ project_filters' = project_filters
    /\ context_filters' = context_filters
    /\ hashtag_filters' = hashtag_filters

\* C27: in the categories view Enter, which the navigator does not consume,
\* toggles the filter of the category at the navigator's absolute index
\* (selection + first), also when the category list is scrolled; a key the
\* navigator consumes toggles no filter.
C27_EnterTogglesAtIndex ==
    [][/\ (op' = "Enter" /\ AbsIndex < StateCategories_len) =>
            FilterSet(category)' =
                ToggleFilter(FilterSet(category),
                             get_categories(category)[AbsIndex + 1][1])
       /\ op' \in {"down", "up", "first", "last"} => FiltersUnchanged]_vars

\* the entry at idx leaves `from` and becomes the last entry of `to`
MovesEntry(from, to, fromNext, toNext, idx) ==
    /\ fromNext = RemoveAt(from, idx)
    /\ toNext = Append(to, from[idx + 1])
    /\ FiltersUnchanged

\* C13: move_task(from, to, index) with index < from.len() removes exactly the
\* entry at index from `from` and appends it as the last entry of `to`; the
\* other entries keep their order and the filter sets are unchanged.
C13_MoveInRange ==
    [][/\ (op' = "move_pending_task" /\ arg' < Len(pending)) =>
            MovesEntry(pending, done, pending', done', arg')
       /\ (op' = "move_done_task" /\ arg' < Len(done)) =>
            MovesEntry(done, pending, done', pending', arg')]_vars

\* the first of three pending tasks has been moved to done
C13_Witness ==
    /\ op = "move_pending_task"
    /\ arg = 0
    /\ Len(pending) = 2
    /\ Len(done) >= 1

\* nothing of the store changed and nothing failed
StoreUntouched ==
    /\ pending' = pending
    /\ done' = done
    /\ FiltersUnchanged
    /\ ~panicked'

\* C14: move_task(from, to, index) with index >= from.len() reports no error
\* and leaves both sequences and all filter sets unchanged, for
\* move_pending_task and move_done_task, also on an empty source.
C14_MoveOutOfRange ==
    [][/\ (op' = "move_pending_task" /\ arg' >= Len(pending)) => StoreUntouched
       /\ (op' = "move_done_task" /\ arg' >= Len(done)) => StoreUntouched]_vars

\* move_done_task has run on an empty done sequence next to pending tasks
C14_Witness ==
    /\ op = "move_done_task"
    /\ done = <<>>
    /\ arg = 0
    /\ Len(pending) >= 2
    /\ ~panicked

\* C15: remove(pending, index) and finish_task(index) with
\* index >= pending.len() fail, and remove no task.
C15_RemoveOutOfRangeFails ==
    [][((op' = "remove_pending_task" \/ op' = "finish_task")
            /\ arg' >= Len(pending)) =>
          /\ panicked'
          /\ pending' = pending
          /\ done' = done]_vars

\* finish_task has failed on an index past the end of a non-empty pending
C15_Witness ==
    /\ op = "finish_task"
    /\ panicked
    /\ Len(pending) >= 1
    /\ arg >= Len(pending)

\* the step appends t to done if t.finished and to pending otherwise
AppendsByFinished(t) ==
    IF t.finished
    THEN done' = Append(done, t) /\ pending' = pending
    ELSE pending' = Append(pending, t) /\ done' = done

\* C16: add(task) appends the task to done if task.finished and to pending
\* otherwise; the other sequence, the order of the entries and the filter sets
\* are unchanged, and it never fails.
C16_AddByFinished ==
    [][op' = "add_task" =>
          /\ \E t \in TaskPool : AppendsByFinished(t)
          /\ FiltersUnchanged
          /\ ~panicked']_vars

\* a finished task has been added behind another done task
C16_Witness ==
    /\ op = "add_task"
    /\ Len(done) = 2
    /\ done[2].finished
    /\ Len(pending) >= 1

\* C17: new_task(text) returns the parse error and leaves pending, done and
\* the filter sets unchanged when the parser rejects the text; when it accepts,
\* the store is left as add(parsed task) leaves it.
C17_NewTaskAtomic ==
    [][/\ op' = "new_task_err" => StoreUntouched
       /\ op' = "new_task" =>
            /\ \E line \in Lines :
                  /\ Task_from_str(line).ok
                  /\ PushTask(Task_from_str(line).task)
            /\ FiltersUnchanged
            /\ ~panicked']_vars

\* a rejected line has left a store with pending and done tasks as it was
C17_Witness ==
    /\ op = "new_task_err"
    /\ Len(pending) >= 1
    /\ Len(done) >= 1

\* the tasks the derived queries are to scan
ScannedTasks == Range(pending) \cup (IF use_done THEN Range(done) ELSE {})

\* the tag values of dimension d on the scanned tasks
ScannedTags(d) == UNION {Field(t, d) : t \in ScannedTasks}

\* one entry per element of `tags`, ascending, flagged by membership in `active`
SortedFlagged(list, tags, active) ==
    /\ {list[k][1] : k \in 1..Len(list)} = tags
    /\ Len(list) = Cardinality(tags)
    /\ \A k \in 1..(Len(list) - 1) : StrLess(list[k][1], list[k + 1][1])
    /\ \A k \in 1..Len(list) : list[k][2] = (list[k][1] \in active)

\* C18: get_categories(d) has exactly one entry per distinct tag value of d on
\* the scanned tasks, in strictly ascending order, each flagged selected iff
\* its name is in the filter set of d.
C18_CategoriesSortedDistinct ==
    \A d \in Dimensions :
        SortedFlagged(get_categories(d), ScannedTags(d), FilterSet(d))

\* p2 is met before p1 and p1 twice; p1 is an active filter
C18_Witness ==
    /\ Len(pending) = 3
    /\ pending[1].projects = {"p2"}
    /\ "p1" \in pending[2].projects
    /\ "p1" \in pending[3].projects
    /\ get_projects = << <<"p1", TRUE>>, <<"p2", FALSE>> >>

HasTag(t, d, name) == name \in Field(t, d)

\* C19: with use_done false get_categories and get_tasks_with_tag reflect the
\* pending tasks only; with use_done true they reflect pending followed by
\* done, and get_tasks_with_tag(d, name) returns every scanned task tagged
\* name in d, pending first, in sequence order.
C19_DoneSwitch ==
    \A d \in Dimensions :
        /\ {get_categories(d)[k][1] : k \in 1..Len(get_categories(d))} =
              UNION {Field(t, d) :
                       t \in IF use_done
                             THEN Range(pending) \cup Range(done)
                             ELSE Range(pending)}
        /\ \A name \in Names(d) :
              get_tasks_with_tag(d, name) =
                  IF use_done
                  THEN SelectSeq(pending, LAMBDA t : HasTag(t, d, name))
                          \o SelectSeq(done, LAMBDA t : HasTag(t, d, name))
                  ELSE SelectSeq(pending, LAMBDA t : HasTag(t, d, name))

\* use_done is off and h1 occurs on done tasks only: no category, no task
C19_Witness ==
    /\ ~use_done
    /\ Len(pending) >= 1
    /\ \E i \in 1..Len(done) : "h1" \in done[i].hashtags
    /\ get_hashtags = <<>>
    /\ get_hashtag_tasks("h1") = <<>>
    /\ get_projects # <<>>

\* C30: in every state reachable from an empty store by add, new_task,
\* move_pending_task, move_done_task, finish_task, remove and toggle_filter,
\* every task in done has finished = true and every task in pending has
\* finished = false.
C30_PartitionByFinished ==
    /\ \A i \in 1..Len(done) : done[i].finished
    /\ \A i \in 1..Len(pending) : ~pending[i].finished

\* the positions of the newlines of t from position i on that are neither
\* escaped nor inside a [..] or (..) block; mode is "text", "block" or "style"
RECURSIVE TopLevelNewlines(_, _, _)
TopLevelNewlines(t, i, mode) ==
    IF i > Len(t)
    THEN {}
    ELSE IF t[i] = BackSlash
    THEN TopLevelNewlines(t, i + 2, mode)
    ELSE CASE mode = "text" ->
                IF t[i] = "["
                THEN TopLevelNewlines(t, i + 1, "block")
                ELSE (IF t[i] = NewLine THEN {i} ELSE {})
                        \cup TopLevelNewlines(t, i + 1, "text")
           [] mode = "block" ->
                IF t[i] = "]"
                THEN IF i + 1 <= Len(t) /\ t[i + 1] = "("
                     THEN TopLevelNewlines(t, i + 2, "style")
                     ELSE TopLevelNewlines(t, i + 1, "text")
                ELSE TopLevelNewlines(t, i + 1, "block")
           [] mode = "style" ->
                IF t[i] = ")"
                THEN TopLevelNewlines(t, i + 1, "text")
                ELSE TopLevelNewlines(t, i + 1, "style")

\* the template positions whose characters ended up in a span of a line
PositionsIn(lines) ==
    UNION {UNION {Range(lines[l][k].text) : k \in 1..Len(lines[l])} :
             l \in 1..Len(lines)}

\* C29: for any template that Parser::parse returns lines for, it returns
\* exactly (number of unescaped newlines outside [..] and (..) blocks) + 1
\* lines, and no line contains a newline taken from such a position, also
\* when the newline directly follows the closing ']' of a block.
C29_SplitsAtEveryNewline ==
    parse_ret.ok =>
        /\ Len(parse_ret.lines) =
              Cardinality(TopLevelNewlines(template, 1, "text")) + 1
        /\ PositionsIn(parse_ret.lines)
              \cap TopLevelNewlines(template, 1, "text") = {}

\* the names get_categories(d) lists as selected
ShownSelected(d) ==
    {get_categories(d)[k][1] :
        k \in {j \in 1..Len(get_categories(d)) : get_categories(d)[j][2]}}

\* C31 as stated: in every state reachable by add, move, finish, remove and
\* filter toggles, each name in the filter set of d is an entry of
\* get_categories(d) with selected = true.
C31_ActiveFilterListed ==
    \A d \in Dimensions : FilterSet(d) \subseteq ShownSelected(d)

\* C31 amended: the names get_categories(d) lists as selected are exactly the
\* names of the filter set of d that are a tag value of d on a scanned task;
\* an active filter that no scanned task carries is not listed.
C31_ActiveFilterListedIfTagged ==
    \A d \in Dimensions : ShownSelected(d) = FilterSet(d) \cap ScannedTags(d)

\* a filter toggled on in the view is listed as selected next to an entry
\* that is not, after a task with the filtered tag has left pending
C31_Witness ==
    /\ op = "finish_task"
    /\ ~panicked
    /\ category = "projects"
    /\ project_filters = {"p1"}
    /\ get_projects = << <<"p1", TRUE>>, <<"p2", FALSE>> >>
    /\ Len(done) >= 1

\* how often task t occurs in the two sequences together
Occurrences(t) ==
    Cardinality({i \in 1..Len(pending) : pending[i] = t})
        + Cardinality({i \in 1..Len(done) : done[i] = t})

Total == Len(pending) + Len(done)

\* every task occurs as often after the step as before it
SameTasks == \A t \in TaskPool : Occurrences(t)' = Occurrences(t)

\* `after` is `before` with at most one entry taken out and at most one
\* entry appended: the entries that stay keep their order
KeepsOrder(before, after) ==
    \/ after = before
    \/ \E t \in TaskPool : after = Append(before, t)
    \/ \E i \in 0..(Len(before) - 1) : after = RemoveAt(before, i)

C33_LastOnEmpty ==
    [][(op' = "last" /\ (len = 0 \/ size = 0)) =>
          /\ ~panicked'
          /\ selected' = 0
          /\ first' = 0]_vars

====
